---- MODULE Spec2Model ----
(***************************************************************************)
(* Model of the Caxx-radar conversion pipeline:                            *)
(*   src/src/io/read_azi.py      polar extractor (read_azi)                *)
(*   src/src/georef/polar.py     polar -> lon/lat (polar_dataset_to_lonlat)*)
(*   src/src/georef/gridding.py  nearest-neighbour gridding                *)
(*   src/scripts/parse_azi.py    orchestration (main)                      *)
(*                                                                         *)
(* Floating point numbers are records [k, n]:                              *)
(*   k = "fin"  a finite number with integer value n                       *)
(*   k = "big"  a finite float64 whose magnitude exceeds the float32 range *)
(*   k = "nan"  NaN          k = "inf"  +infinity                          *)
(* An exception is a record with ok = FALSE and the message in err.        *)
(***************************************************************************)
EXTENDS Integers, Sequences, FiniteSets, TLC

\* ------------------------------------------------------------------ bounds
MaxAz == 2       \* rows of the data block (azimuths)
MaxRng == 2      \* columns of the data block (range bins)
MaxAng == 2      \* entries of an explicit angle list
MaxN == 2        \* samples of a grid-step input (SpecGrid)

\* ------------------------------------------------------------------ floats
Fin(n) == [k |-> "fin", n |-> n]
NaN == [k |-> "nan", n |-> 0]
PInf == [k |-> "inf", n |-> 1]
Big == [k |-> "big", n |-> 1]

\* np.isfinite
isfinite(f) == f.k \in {"fin", "big"}
\* np.isnan
isnan(f) == f.k = "nan"

\* a + b and a * b on floats, the second operand a finite integer
FAdd(f, b) == IF f.k = "fin" THEN Fin(f.n + b) ELSE f
FAddF(f, g) ==
    IF f.k = "nan" \/ g.k = "nan" THEN NaN
    ELSE IF f.k = "inf" \/ g.k = "inf" THEN PInf
    ELSE IF f.k = "big" \/ g.k = "big" THEN Big
    ELSE Fin(f.n + g.n)

Abs(n) == IF n < 0 THEN -n ELSE n

RECURSIVE Ulp32(_, _)
\* spacing of float32 numbers around magnitude a (24-bit significand)
Ulp32(a, u) == IF a \div u < 16777216 THEN u ELSE Ulp32(a, 2 * u)

\* round an integer to the nearest float32, ties to even
RoundF32(n) ==
    LET a == Abs(n)
        u == Ulp32(a, 1)
        q == a \div u
        r == a % u
        q2 == IF 2 * r > u \/ (2 * r = u /\ q % 2 = 1) THEN q + 1 ELSE q
    IN  IF n < 0 THEN -(q2 * u) ELSE q2 * u

\* ndarray.astype(np.float32): values beyond the float32 range become inf
AsF32(f) ==
    IF f.k = "fin" THEN Fin(RoundF32(f.n))
    ELSE IF f.k = "big" THEN PInf
    ELSE f

\* ------------------------------------------------------------------ sequences
RECURSIVE Ravel(_)
\* ndarray.ravel of a 2-D array kept as a sequence of rows
Ravel(a) == IF a = <<>> THEN <<>> ELSE Head(a) \o Ravel(Tail(a))

SetMin(S) == CHOOSE m \in S : \A x \in S : m <= x
SetMax(S) == CHOOSE m \in S : \A x \in S : m >= x

\* sequences over S of length lo..hi
SeqsOf(S, lo, hi) == UNION {[1..n -> S] : n \in lo..hi}

\* ------------------------------------------------------------------ errors
Raise(msg) == [ok |-> FALSE, err |-> msg]

\* ------------------------------------------------------------------ gridding
\* Transformer.from_crs("EPSG:4326", crs, always_xy=True).transform(lon, lat).
\* Angles are kept in metres of arc.  A finite point inside the projection's
\* domain maps to finite easting/northing (false easting 500000); a finite
\* point outside it maps to inf (errcheck is off); a NaN maps to nanOut, which
\* is NaN or inf depending on the PROJ build.
Transform(lon, lat, nanOut) ==
    IF isnan(lon) \/ isnan(lat) THEN <<nanOut, nanOut>>
    ELSE IF ~isfinite(lon) \/ ~isfinite(lat) THEN <<PInf, PInf>>
    ELSE IF Abs(lat.n) > 90 * 111320 \/ Abs(lon.n) > 180 * 111320
         THEN <<PInf, PInf>>
    ELSE <<Fin(lon.n + 500000), Fin(lat.n)>>

\* np.nanmin over a non-empty flat array: NaN entries are skipped, inf is not
nanmin(a) ==
    LET S == {i \in 1..Len(a) : ~isnan(a[i])}
        F == {a[i].n : i \in {j \in S : a[j].k = "fin"}}
    IN  IF S = {} THEN NaN
        ELSE IF F = {} THEN PInf
        ELSE Fin(SetMin(F))

\* np.nanmax over a non-empty flat array
nanmax(a) ==
    LET S == {i \in 1..Len(a) : ~isnan(a[i])}
        F == {a[i].n : i \in {j \in S : a[j].k = "fin"}}
    IN  IF S = {} THEN NaN
        ELSE IF \E i \in S : a[i].k = "inf" THEN PInf
        ELSE Fin(SetMax(F))

arangeFloor(start, stop, step) ==
    LET n == IF stop > start THEN (stop - start) \div step ELSE 0
    IN  [i \in 1..n |-> start + (i - 1) * step]

\* np.arange(start, stop, step) for finite bounds and step > 0:
\* ceil((stop - start) / step) elements start + i * step
arange(start, stop, step) ==
    LET n == IF stop > start THEN ((stop - start) + step - 1) \div step ELSE 0
    IN  [i \in 1..n |-> start + (i - 1) * step]

MaskNoValueCheck(v, X, Y) ==
    [i \in 1..Len(v) |-> isfinite(X[i]) /\ isfinite(Y[i])]

\* mask = np.isfinite(v) & np.isfinite(X) & np.isfinite(Y)
Mask(v, X, Y) ==
    [i \in 1..Len(v) |-> isfinite(v[i]) /\ isfinite(X[i]) /\ isfinite(Y[i])]

RECURSIVE Where(_, _)
\* positions of the True entries of a mask, in order, from position i on
Where(mask, i) ==
    IF i > Len(mask) THEN <<>>
    ELSE IF mask[i] THEN <<i>> \o Where(mask, i + 1)
    ELSE Where(mask, i + 1)

\* squared Euclidean distance between two points of the projected plane
Dist2(px, py, qx, qy) == (px - qx) * (px - qx) + (py - qy) * (py - qy)

\* the candidates at minimal distance to the query point (qx, qy)
Nearest(pts, qx, qy) ==
    {i \in 1..Len(pts) :
        \A j \in 1..Len(pts) :
            Dist2(pts[i][1], pts[i][2], qx, qy) <= Dist2(pts[j][1], pts[j][2], qx, qy)}

\* cKDTree(pts).query(q, k=1): the index of a nearest point; which of several
\* equidistant points is returned depends on the tree, here on tie
Query(pts, qx, qy, tie) ==
    IF tie = "low" THEN SetMin(Nearest(pts, qx, qy)) ELSE SetMax(Nearest(pts, qx, qy))

AssignNoSecondPass(val, nodata) == AsF32(val)

\* out = vals[idx].astype(np.float32); out[~np.isfinite(out)] = nodata
Assign(val, nodata) ==
    IF isfinite(AsF32(val)) THEN AsF32(val) ELSE AsF32(Fin(nodata))

NoGrid == [made |-> FALSE, x |-> <<>>, y |-> <<>>, out |-> <<>>, nodata |-> 0]

\* polar_to_grid_2d over the flattened arrays v, lon, lat
polar_to_grid_2d(v, lon, lat, dx, dy, buffer_m, nodata, nanOut, tie) ==
    LET P == [i \in 1..Len(v) |-> Transform(lon[i], lat[i], nanOut)]
        X == [i \in 1..Len(v) |-> P[i][1]]
        Y == [i \in 1..Len(v) |-> P[i][2]]
        x0 == FAdd(nanmin(X), -buffer_m)
        x1 == FAdd(nanmax(X), buffer_m)
        y0 == FAdd(nanmin(Y), -buffer_m)
        y1 == FAdd(nanmax(Y), buffer_m)
    IN  IF Len(v) = 0
        THEN Raise("ValueError: zero-size array to reduction operation fmin which has no identity")
        ELSE IF ~isfinite(x0) \/ ~isfinite(x1) \/ ~isfinite(y0) \/ ~isfinite(y1)
        THEN Raise("ValueError: arange: cannot compute length")
        ELSE
        LET xs == arange(x0.n, x1.n + dx, dx)
            ys == arange(y0.n, y1.n + dy, dy)
            sel == Where(Mask(v, X, Y), 1)
            pts == [k \in 1..Len(sel) |-> <<X[sel[k]].n, Y[sel[k]].n>>]
            vals == [k \in 1..Len(sel) |-> v[sel[k]]]
            out == IF Len(pts) = 0
                   THEN [j \in 1..Len(ys) |-> [i \in 1..Len(xs) |-> AsF32(Fin(nodata))]]
                   ELSE [j \in 1..Len(ys) |-> [i \in 1..Len(xs) |->
                            Assign(vals[Query(pts, xs[i], ys[j], tie)], nodata)]]
        IN  [ok |-> TRUE, err |-> "",
             grid |-> [made |-> TRUE, x |-> xs, y |-> ys, out |-> out, nodata |-> nodata]]

\* ------------------------------------------------------------------ extractor
\* str.lower() on the path suffixes used
Lower(suffix) == IF suffix = ".AZI" THEN ".azi" ELSE suffix

\* detect_format
detect_format(suffix) == IF Lower(suffix) = ".azi" THEN "rainbow" ELSE "unknown"

\* float(x) on the strings used; ok = FALSE is ValueError
ParseFloat(s) ==
    IF s = "0.0" THEN [ok |-> TRUE, val |-> Fin(0)]
    ELSE IF s = "90" THEN [ok |-> TRUE, val |-> Fin(90)]
    ELSE IF s = "-3.0" THEN [ok |-> TRUE, val |-> Fin(-3)]
    ELSE IF s = "2500" THEN [ok |-> TRUE, val |-> Fin(2500)]
    ELSE IF s = "nan" THEN [ok |-> TRUE, val |-> NaN]
    ELSE [ok |-> FALSE, val |-> NaN]

\* _safe_float over radar_info.get(key, np.nan): an absent key gives np.nan
safe_float(s) ==
    IF s = "missing" THEN NaN
    ELSE IF ParseFloat(s).ok THEN ParseFloat(s).val
    ELSE NaN

ExtractSliceScanFirst(tree) ==
    IF ~tree.scan THEN Raise("Estructura Rainbow inesperada: falta 'scan'.")
    ELSE IF ~tree.volume THEN Raise("Estructura Rainbow inesperada: falta 'volume'.")
    ELSE IF ~tree.slice THEN Raise("Estructura Rainbow inesperada: falta 'slice'.")
    ELSE [ok |-> TRUE, err |-> ""]

\* _extract_slice: volume, then scan, then slice
extract_slice(tree) ==
    IF ~tree.volume THEN Raise("Estructura Rainbow inesperada: falta 'volume'.")
    ELSE IF ~tree.scan THEN Raise("Estructura Rainbow inesperada: falta 'scan'.")
    ELSE IF ~tree.slice THEN Raise("Estructura Rainbow inesperada: falta 'slice'.")
    ELSE [ok |-> TRUE, err |-> ""]

\* np.asarray(slc["data"]): rows x cols samples, the first one NaN when fill = "nan"
DataBlock(tree) ==
    [i \in 1..tree.rows |-> [j \in 1..tree.cols |->
        IF tree.fill = "nan" /\ i = 1 /\ j = 1 THEN NaN ELSE Fin(10 * i + j)]]

\* number of bins: the first ray's @bins when rays are declared, else data.shape[-1]
NRng(tree) == IF tree.rays = "bins" THEN tree.bins ELSE tree.cols

\* dr: @rscale, 1000.0 when absent
Dr(tree) == IF tree.rscale = "missing" THEN 1000 ELSE ParseFloat(tree.rscale).val.n

\* ranges_m = r0 + dr * np.arange(n_rng), with @rstart absent (0.0) and
\* @rscale absent (1000.0) or declared
Ranges(tree) ==
    [k \in 1..NRng(tree) |-> Fin(0 + Dr(tree) * (k - 1))]

linspace360Endpoint(n_az) == [k \in 1..n_az |-> Fin(k * (360 \div n_az))]

\* np.linspace(0.0, 360.0, n_az, endpoint=False)
linspace360(n_az) == [k \in 1..n_az |-> Fin((k - 1) * (360 \div n_az))]

\* az_deg: the explicit angle list when declared, else uniform over [0, 360)
Azimuths(tree) ==
    IF tree.hasAngles
    THEN IF \A i \in 1..Len(tree.angles) : ParseFloat(tree.angles[i]).ok
         THEN [ok |-> TRUE,
               val |-> [i \in 1..Len(tree.angles) |-> ParseFloat(tree.angles[i]).val]]
         ELSE [ok |-> FALSE, val |-> <<>>]
    ELSE [ok |-> TRUE, val |-> linspace360(tree.rows)]

\* _get_data_and_axes
get_data_and_axes(tree) ==
    IF ~tree.data THEN Raise("Slice Rainbow sin 'data' decodificado.")
    ELSE IF ~Azimuths(tree).ok THEN Raise("ValueError: could not convert string to float")
    ELSE [ok |-> TRUE, err |-> "", data |-> DataBlock(tree),
          az_deg |-> Azimuths(tree).val, ranges_m |-> Ranges(tree)]

NoDs == [made |-> FALSE, values |-> <<>>, azimuth |-> <<>>, range |-> <<>>,
         attrs |-> <<>>, lon |-> <<>>, lat |-> <<>>, alt |-> <<>>]

\* shape of a 2-D array kept as a sequence of rows of equal length
Shape(a, cols) == <<Len(a), IF Len(a) = 0 THEN cols ELSE Len(a[1])>>

\* xr.DataArray(data, dims=("azimuth", "range"), coords=...): each coordinate
\* must be as long as its dimension of the data
DataArrayOk(data, az_deg, ranges_m, cols) ==
    Shape(data, cols) = <<Len(az_deg), Len(ranges_m)>>

AttrKeys == {"elevation_deg", "r0_m", "dr_m", "radar_lon", "radar_lat", "radar_alt_m"}

\* the value read_azi stores under an attribute key
AttrValue(tree, key) ==
    CASE key = "radar_lon" -> safe_float(tree.sensor.lon)
      [] key = "radar_lat" -> safe_float(tree.sensor.lat)
      [] key = "radar_alt_m" -> safe_float(tree.sensor.alt)
      [] key = "dr_m" -> Fin(Dr(tree))
      [] OTHER -> Fin(0)

AttrsSkipNaN(tree) ==
    [key \in {q \in AttrKeys : ~isnan(AttrValue(tree, q))} |-> AttrValue(tree, key)]

\* ds.attrs.update({...}) in read_azi: every key is set, whatever its value
Attrs(tree) == [key \in AttrKeys |-> AttrValue(tree, key)]

\* read_azi after the decoder: _extract_slice, _get_data_and_axes, the dataset
extract(tree) ==
    IF ~extract_slice(tree).ok THEN Raise(extract_slice(tree).err)
    ELSE IF ~get_data_and_axes(tree).ok THEN Raise(get_data_and_axes(tree).err)
    ELSE LET r == get_data_and_axes(tree)
         IN  IF ~DataArrayOk(r.data, r.az_deg, r.ranges_m, tree.cols)
             THEN Raise("ValueError: conflicting sizes for dimension")
             ELSE [ok |-> TRUE, err |-> "",
                   ds |-> [made |-> TRUE, values |-> r.data, azimuth |-> r.az_deg,
                           range |-> r.ranges_m, attrs |-> Attrs(tree),
                           lon |-> <<>>, lat |-> <<>>, alt |-> <<>>]]

\* dict.get(key, default)
Get(d, key, default) == IF key \in DOMAIN d THEN d[key] ELSE default

\* ------------------------------------------------------------------ georeferencing
\* 1000 * sin of an angle in whole degrees (Bhaskara's rational approximation,
\* exact at the multiples of 90)
Sin1000(a) ==
    LET d == a % 360
        h == IF d <= 180 THEN d ELSE d - 180
        v == (4000 * h * (180 - h)) \div (40500 - h * (180 - h))
    IN  IF d <= 180 THEN v ELSE -v

Cos1000(a) == Sin1000(a + 90)

polar_to_xyzTransposed(ranges, az) ==
    [c \in {"x", "y", "z"} |->
       [j \in 1..Len(ranges) |-> [i \in 1..Len(az) |->
          IF ~isfinite(az[i]) \/ ~isfinite(ranges[j]) THEN NaN
          ELSE CASE c = "x" -> Fin((ranges[j].n * Sin1000(az[i].n)) \div 1000)
                 [] c = "y" -> Fin((ranges[j].n * Cos1000(az[i].n)) \div 1000)
                 [] OTHER -> Fin(0)]]]

\* polar_to_xyz: meshgrid(ranges, azimuth) gives (n_az, n_rng) arrays; at
\* elevation 0 a sample lies r*sin(az) east and r*cos(az) north of the radar
polar_to_xyz(ranges, az) ==
    [c \in {"x", "y", "z"} |->
       [i \in 1..Len(az) |-> [j \in 1..Len(ranges) |->
          IF ~isfinite(az[i]) \/ ~isfinite(ranges[j]) THEN NaN
          ELSE CASE c = "x" -> Fin((ranges[j].n * Sin1000(az[i].n)) \div 1000)
                 [] c = "y" -> Fin((ranges[j].n * Cos1000(az[i].n)) \div 1000)
                 [] OTHER -> Fin(0)]]]

\* degrees to metres of arc
Arc(f) == IF f.k = "fin" THEN Fin(f.n * 111320) ELSE f

\* xyz_to_lonlat: offsets from the radar site; a NaN site gives NaN everywhere
xyz_to_lonlat(xyz, radar_lon, radar_lat, radar_alt_m) ==
    [c \in {"lon", "lat", "alt"} |->
       LET src == CASE c = "lon" -> xyz["x"] [] c = "lat" -> xyz["y"] [] OTHER -> xyz["z"]
           site == CASE c = "lon" -> Arc(radar_lon) [] c = "lat" -> Arc(radar_lat)
                     [] OTHER -> radar_alt_m
       IN  [i \in 1..Len(src) |-> [j \in 1..Len(src[i]) |-> FAddF(src[i][j], site)]]]

\* polar_dataset_to_lonlat: lon/lat/alt attached with dims (azimuth, range)
polar_dataset_to_lonlat(ds, radar_lon, radar_lat, radar_alt_m) ==
    LET g == xyz_to_lonlat(polar_to_xyz(ds.range, ds.azimuth),
                           radar_lon, radar_lat, radar_alt_m)
    IN  [ds EXCEPT !.lon = g["lon"], !.lat = g["lat"], !.alt = g["alt"]]

\* ------------------------------------------------------------------ inputs
Suffixes == {".azi", ".AZI", ".vol"}

\* angle strings of an explicit angle list
AngTokens == {"90", "nan", "abc"}

\* sensorinfo: each of @lon, @lat, @alt is a number, garbled or absent
PosCases ==
    {[lon |-> "0.0", lat |-> "-3.0", alt |-> "2500"],
     [lon |-> "missing", lat |-> "-3.0", alt |-> "2500"],
     [lon |-> "0.0", lat |-> "abc", alt |-> "2500"],
     [lon |-> "0.0", lat |-> "-3.0", alt |-> "missing"],
     [lon |-> "missing", lat |-> "missing", alt |-> "missing"]}

NoTree ==
    [volume |-> FALSE, scan |-> FALSE, slice |-> FALSE, data |-> FALSE,
     rows |-> 1, cols |-> 1, fill |-> "ten", rays |-> "none", bins |-> 1,
     rscale |-> "missing", hasAngles |-> FALSE, angles |-> <<>>,
     sensor |-> [lon |-> "missing", lat |-> "missing", alt |-> "missing"]]

\* trees lacking a structural element: scan lives in volume, slice in scan,
\* the data block in the slice
BrokenTrees ==
    {NoTree,
     [NoTree EXCEPT !.volume = TRUE],
     [NoTree EXCEPT !.volume = TRUE, !.scan = TRUE],
     [NoTree EXCEPT !.volume = TRUE, !.scan = TRUE, !.slice = TRUE]}

\* trees with every structural element
FullTrees ==
    {[volume |-> TRUE, scan |-> TRUE, slice |-> TRUE, data |-> TRUE,
      rows |-> r, cols |-> c, fill |-> f, rays |-> ry[1], bins |-> ry[2],
      rscale |-> rs, hasAngles |-> an[1], angles |-> an[2], sensor |-> p] :
        r \in 1..MaxAz, c \in 1..MaxRng, f \in {"ten", "nan"},
        ry \in {<<"none", 1>>, <<"nobins", 1>>} \cup {<<"bins", b>> : b \in 1..MaxRng},
        rs \in {"missing"},
        an \in {<<FALSE, <<>> >>} \cup {<<TRUE, a>> : a \in SeqsOf(AngTokens, 1, MaxAng)},
        p \in PosCases}

Trees == BrokenTrees \cup FullTrees

\* config/params.yaml as loaded by main
CfgsMain ==
    {[dx |-> 1000, dy |-> 1000, buffer_m |-> b, nodata |-> -9999,
      radar |-> [lon |-> Fin(1), lat |-> Fin(1), alt_m |-> Fin(100)]] : b \in {1000}}

CfgsGrid ==
    {[dx |-> d[1], dy |-> d[2], buffer_m |-> d[3], nodata |-> -9999,
      radar |-> [lon |-> Fin(1), lat |-> Fin(1), alt_m |-> Fin(100)]] :
        d \in {<<1000, 2000, 0>>, <<2000, 1000, 1000>>}}

\* library behaviour the source does not fix: the projection of NaN and the
\* nearest-neighbour tie-break; known once the grid step runs
Envs == [nanOut : {NaN, PInf}, tie : {"low", "high"}]
NoEnv == [nanOut |-> NaN, tie |-> "unset"]

\* sample values and geographic positions of a grid-step input
GridVals == {Fin(10), Fin(16777217), Big, NaN}
GridPoints ==
    {<<Fin(0), Fin(0)>>, <<Fin(3000), Fin(0)>>, <<Fin(0), Fin(2000)>>,
     <<NaN, NaN>>, <<Fin(0), Fin(20000000)>>}

\* a georeferenced dataset of one ray whose samples are the <<value, <<lon, lat>>>> of s
GridInput(s) ==
    [made |-> TRUE, values |-> <<[i \in 1..Len(s) |-> s[i][1]]>>, azimuth |-> <<Fin(0)>>,
     range |-> [i \in 1..Len(s) |-> Fin(1000 * (i - 1))], attrs |-> <<>>,
     lon |-> <<[i \in 1..Len(s) |-> s[i][2][1]]>>,
     lat |-> <<[i \in 1..Len(s) |-> s[i][2][2]]>>,
     alt |-> <<[i \in 1..Len(s) |-> Fin(0)]>>]

GridInputs == {GridInput(s) : s \in SeqsOf(GridVals \X GridPoints, 1, MaxN)}

\* ------------------------------------------------------------------ state
VARIABLES
    pc,          \* position in main
    path,        \* suffix of --file
    args,        \* --nc-polar, --nc-grid
    cfg,         \* the loaded configuration
    env,         \* library behaviour (see Envs)
    tree,        \* the decoder's result
    ds_polar,    \* read_azi's dataset
    ds_ll,       \* polar_dataset_to_lonlat's dataset
    ds_grid,     \* polar_to_grid_2d's dataset
    radar_used,  \* the radar position handed to polar_dataset_to_lonlat
    err,         \* message of the exception that ended main, "" if none
    raised_in,   \* the call that raised, "" if none
    calls,       \* the calls made so far, in order
    written      \* the NetCDF files written

vars == <<pc, path, args, cfg, env, tree, ds_polar, ds_ll, ds_grid, radar_used,
          err, raised_in, calls, written>>

NoPos == <<NaN, NaN, NaN>>

\* main up to the call of read_azi: arguments parsed, configuration loaded
Init ==
    /\ pc = "start"
    /\ path \in Suffixes
    /\ args \in [nc_polar : BOOLEAN, nc_grid : BOOLEAN]
    /\ cfg \in CfgsMain
    /\ env = NoEnv
    /\ tree = NoTree
    /\ ds_polar = NoDs
    /\ ds_ll = NoDs
    /\ ds_grid = NoGrid
    /\ radar_used = NoPos
    /\ err = ""
    /\ raised_in = ""
    /\ calls = <<>>
    /\ written = {}

\* read_azi: fmt = detect_format(path); an unsupported format raises
DetectFormat ==
    /\ pc = "start"
    /\ calls' = Append(calls, "detect_format")
    /\ IF detect_format(path) = "rainbow"
       THEN /\ pc' = "decode"
            /\ UNCHANGED <<err, raised_in>>
       ELSE /\ pc' = "error"
            /\ err' = "Formato no soportado"
            /\ raised_in' = "read_azi"
    /\ UNCHANGED <<path, args, cfg, env, tree, ds_polar, ds_ll, ds_grid, radar_used, written>>

\* read_azi: tree = wrl.io.read_rainbow(str(path))
Decode ==
    /\ pc = "decode"
    /\ \E t \in Trees : tree' = t
    /\ calls' = Append(calls, "read_rainbow")
    /\ pc' = "extract"
    /\ UNCHANGED <<path, args, cfg, env, ds_polar, ds_ll, ds_grid, radar_used,
                   err, raised_in, written>>

ExtractErrorSwallowed ==
    /\ pc = "extract"
    /\ calls' = Append(calls, "extract")
    /\ IF extract(tree).ok
       THEN /\ ds_polar' = extract(tree).ds
            /\ UNCHANGED <<err, raised_in>>
       ELSE /\ err' = extract(tree).err
            /\ raised_in' = "read_azi"
            /\ UNCHANGED ds_polar
    /\ pc' = "read_done"
    /\ UNCHANGED <<path, args, cfg, env, tree, ds_ll, ds_grid, radar_used, written>>

\* read_azi: the slice, the data and axes, the dataset and its attributes
Extract ==
    /\ pc = "extract"
    /\ calls' = Append(calls, "extract")
    /\ IF extract(tree).ok
       THEN /\ ds_polar' = extract(tree).ds
            /\ pc' = "read_done"
            /\ UNCHANGED <<err, raised_in>>
       ELSE /\ pc' = "error"
            /\ err' = extract(tree).err
            /\ raised_in' = "read_azi"
            /\ UNCHANGED ds_polar
    /\ UNCHANGED <<path, args, cfg, env, tree, ds_ll, ds_grid, radar_used, written>>

\* main: if args.nc_polar: save_netcdf(ds_polar, out_nc_polar)
SavePolar ==
    /\ pc = "read_done"
    /\ IF args.nc_polar
       THEN /\ written' = written \cup {"polar"}
            /\ calls' = Append(calls, "save_netcdf")
       ELSE UNCHANGED <<written, calls>>
    /\ pc' = "polar_done"
    /\ UNCHANGED <<path, args, cfg, env, tree, ds_polar, ds_ll, ds_grid, radar_used,
                   err, raised_in>>

\* main: if args.nc_grid: the radar position and polar_dataset_to_lonlat
Georef ==
    /\ pc = "polar_done"
    /\ IF args.nc_grid
       THEN LET radar_lon == Get(ds_polar.attrs, "radar_lon", cfg.radar.lon)
                radar_lat == Get(ds_polar.attrs, "radar_lat", cfg.radar.lat)
                radar_alt == Get(ds_polar.attrs, "radar_alt_m", cfg.radar.alt_m)
            IN  /\ radar_used' = <<radar_lon, radar_lat, radar_alt>>
                /\ ds_ll' = polar_dataset_to_lonlat(ds_polar, radar_lon, radar_lat, radar_alt)
                /\ calls' = Append(calls, "polar_dataset_to_lonlat")
                /\ pc' = "georef_done"
       ELSE /\ pc' = "done"
            /\ UNCHANGED <<radar_used, ds_ll, calls>>
    /\ UNCHANGED <<path, args, cfg, env, tree, ds_polar, ds_grid, err, raised_in, written>>

\* main: ds_grid = polar_to_grid_2d(ds_ll, epsg, dx, dy, buffer_m, nodata)
Grid ==
    /\ pc = "georef_done"
    /\ calls' = Append(calls, "polar_to_grid_2d")
    /\ \E e \in Envs :
        /\ env' = e
        /\ LET r == polar_to_grid_2d(Ravel(ds_ll.values), Ravel(ds_ll.lon), Ravel(ds_ll.lat),
                                     cfg.dx, cfg.dy, cfg.buffer_m, cfg.nodata,
                                     e.nanOut, e.tie)
           IN  IF r.ok
               THEN /\ ds_grid' = r.grid
                    /\ pc' = "grid_done"
                    /\ UNCHANGED <<err, raised_in>>
               ELSE /\ pc' = "error"
                    /\ err' = r.err
                    /\ raised_in' = "polar_to_grid_2d"
                    /\ UNCHANGED ds_grid
    /\ UNCHANGED <<path, args, cfg, tree, ds_polar, ds_ll, radar_used, written>>

\* main: save_netcdf(ds_grid, out_nc_grid, nodata=nodata)
SaveGrid ==
    /\ pc = "grid_done"
    /\ written' = written \cup {"grid"}
    /\ calls' = Append(calls, "save_netcdf")
    /\ pc' = "done"
    /\ UNCHANGED <<path, args, cfg, env, tree, ds_polar, ds_ll, ds_grid, radar_used,
                   err, raised_in>>

Next == DetectFormat \/ Decode \/ Extract \/ SavePolar \/ Georef \/ Grid \/ SaveGrid

\* one conversion, as main runs it
Spec == Init /\ [][Next]_vars

\* the grid step of main on a georeferenced dataset drawn from GridInputs
InitGrid ==
    /\ pc = "georef_done"
    /\ path = ".azi"
    /\ args = [nc_polar |-> FALSE, nc_grid |-> TRUE]
    /\ cfg \in CfgsGrid
    /\ env = NoEnv
    /\ tree = NoTree
    /\ ds_polar = NoDs
    /\ ds_ll \in GridInputs
    /\ ds_grid = NoGrid
    /\ radar_used = NoPos
    /\ err = ""
    /\ raised_in = ""
    /\ calls = <<>>
    /\ written = {}

NextGrid == Grid

SpecGrid == InitGrid /\ [][NextGrid]_vars

\* ------------------------------------------------------------------ grid-step claims
Called(f) == \E k \in 1..Len(calls) : calls[k] = f

\* the grid step's input samples, flattened, and their projected coordinates
FV == Ravel(ds_ll.values)
PX(i) == Transform(Ravel(ds_ll.lon)[i], Ravel(ds_ll.lat)[i], env.nanOut)[1]
PY(i) == Transform(Ravel(ds_ll.lon)[i], Ravel(ds_ll.lat)[i], env.nanOut)[2]
Samples == 1..Len(FV)

\* samples whose value and projected coordinates are all finite
Candidates == {i \in Samples : isfinite(FV[i]) /\ isfinite(PX(i)) /\ isfinite(PY(i))}
FiniteX == {PX(i).n : i \in {j \in Samples : isfinite(PX(j))}}
FiniteY == {PY(i).n : i \in {j \in Samples : isfinite(PY(j))}}

GridCells == {<<j, i>> : j \in 1..Len(ds_grid.y), i \in 1..Len(ds_grid.x)}
CellValue(c) == ds_grid.out[c[1]][c[2]]
AllNodata == \A c \in GridCells : CellValue(c) = Fin(ds_grid.nodata)

\* sample i is at minimal distance to the centre of cell c among the candidates
NearestCandidate(i, c) ==
    /\ i \in Candidates
    /\ \A j \in Candidates :
          Dist2(PX(i).n, PY(i).n, ds_grid.x[c[2]], ds_grid.y[c[1]])
              <= Dist2(PX(j).n, PY(j).n, ds_grid.x[c[2]], ds_grid.y[c[1]])

\* a value as a float32 grid cell holds it: nodata when it leaves the float32 range
AsCell(val) == IF AsF32(val).k = "fin" THEN AsF32(val) ELSE Fin(ds_grid.nodata)

\* C1: whenever no sample has finite projected coordinates, the grid step does
\* not raise and returns a grid whose every cell equals nodata.
C1_EmptyInputGivesNodataGrid ==
    (Called("polar_to_grid_2d") /\ \A i \in Samples : ~(isfinite(PX(i)) /\ isfinite(PY(i))))
        => (raised_in = "" /\ ds_grid.made /\ AllNodata)

AxisCovers(axis, F, step) ==
    /\ Len(axis) >= 1
    /\ axis[1] = SetMin(F) - cfg.buffer_m
    /\ \A k \in 1..(Len(axis) - 1) : axis[k + 1] - axis[k] = step
    /\ axis[Len(axis)] >= SetMax(F) + cfg.buffer_m
    /\ axis[Len(axis)] < SetMax(F) + cfg.buffer_m + step

C4_CellHoldsNearestValue ==
    (ds_grid.made /\ Candidates # {})
        => \A c \in GridCells : \E i \in Samples : NearestCandidate(i, c) /\ CellValue(c) = FV[i]

\* C4 (amended): with a non-empty candidate set every cell of the returned grid
\* holds the float32 conversion of the value of a sample at minimal distance
\* among the samples whose value, X and Y are all finite, or nodata when that
\* conversion is not finite; a non-finite sample is never the one selected.
C4_CellHoldsNearestValueAsFloat32 ==
    (ds_grid.made /\ Candidates # {})
        => \A c \in GridCells : \E i \in Samples : NearestCandidate(i, c) /\ CellValue(c) = AsCell(FV[i])

\* a returned grid where a sample with a NaN value and finite coordinates lies
\* exactly on a cell centre and a candidate exists elsewhere
C4_Witness ==
    /\ ds_grid.made
    /\ Candidates # {}
    /\ \E i \in Samples \ Candidates :
          /\ isfinite(PX(i)) /\ isfinite(PY(i))
          /\ \E c \in GridCells :
                /\ ds_grid.x[c[2]] = PX(i).n /\ ds_grid.y[c[1]] = PY(i).n
                /\ \A j \in Candidates : PX(j) # PX(i) \/ PY(j) # PY(i)

ShapeOf(a) == <<Len(a), IF Len(a) = 0 THEN 0 ELSE Len(a[1])>>
Rectangular(a) == \A i \in 1..Len(a) : Len(a[i]) = Len(a[1])

\* C2: every polar dataset read_azi returns has values of shape
\* (len(azimuth), len(range)), and so has the dataset returned by
\* polar_dataset_to_lonlat, whose lon, lat and alt have that shape too.
C2_ShapeInvariant ==
    /\ ds_polar.made =>
          /\ Rectangular(ds_polar.values)
          /\ ShapeOf(ds_polar.values) = <<Len(ds_polar.azimuth), Len(ds_polar.range)>>
    /\ ds_ll.made =>
          /\ ShapeOf(ds_ll.values) = <<Len(ds_ll.azimuth), Len(ds_ll.range)>>
          /\ \A a \in {ds_ll.lon, ds_ll.lat, ds_ll.alt} :
                Rectangular(a) /\ ShapeOf(a) = ShapeOf(ds_ll.values)

\* a georeferenced dataset of a non-square block whose range axis comes from the
\* first ray's @bins and whose azimuth axis comes from the explicit angle list
C2_Witness ==
    /\ ds_ll.made
    /\ tree.rays = "bins"
    /\ tree.hasAngles
    /\ tree.rows # tree.cols

\* the outermost structural element the tree lacks
FirstMissing ==
    IF ~tree.volume THEN "volume"
    ELSE IF ~tree.scan THEN "scan"
    ELSE IF ~tree.slice THEN "slice"
    ELSE IF ~tree.data THEN "data"
    ELSE "none"

\* the message that names a missing key
MissingMessage(key) ==
    CASE key = "volume" -> "Estructura Rainbow inesperada: falta 'volume'."
      [] key = "scan" -> "Estructura Rainbow inesperada: falta 'scan'."
      [] key = "slice" -> "Estructura Rainbow inesperada: falta 'slice'."
      [] key = "data" -> "Slice Rainbow sin 'data' decodificado."

\* C5: extraction of a tree lacking volume, scan, slice or the data block raises
\* an error naming the first of them that is absent, and returns no dataset.
C5_MissingKeyNamed ==
    (Called("extract") /\ FirstMissing # "none")
        => /\ pc = "error"
           /\ raised_in = "read_azi"
           /\ err = MissingMessage(FirstMissing)
           /\ ~ds_polar.made

\* extraction has failed on a tree that has a volume but no scan
C5_Witness ==
    /\ Called("extract")
    /\ pc = "error"
    /\ tree.volume
    /\ FirstMissing = "scan"

\* some radar position field of the decoded tree is absent or unparseable
PositionGarbled ==
    \E f \in {tree.sensor.lon, tree.sensor.lat, tree.sensor.alt} : ~ParseFloat(f).ok

\* C6: a missing or unparseable radar position field never makes the pipeline
\* raise (the axes being finite, nothing else could); where the position is
\* NaN the grid that comes out is nodata.
C6_GarbledPositionNeverRaises ==
    (ds_polar.made /\ PositionGarbled /\ \A i \in 1..Len(ds_polar.azimuth) : isfinite(ds_polar.azimuth[i]))
        => /\ raised_in = ""
           /\ (pc = "done" /\ args.nc_grid /\ (isnan(radar_used[1]) \/ isnan(radar_used[2])))
                 => (ds_grid.made /\ AllNodata)

LaterStages == {"polar_dataset_to_lonlat", "polar_to_grid_2d", "save_netcdf"}

\* C7: an unsupported format is reported before the decoder and the extraction
\* run, and once read_azi has raised there is no georeferencing, no gridding
\* and no file written.
C7_ReadErrorEndsConversion ==
    /\ (raised_in = "read_azi" /\ detect_format(path) # "rainbow")
          => calls = <<"detect_format">>
    /\ raised_in = "read_azi"
          => /\ \A f \in LaterStages : ~Called(f)
             /\ written = {}
             /\ ~ds_ll.made
             /\ ~ds_grid.made
             /\ pc = "error"

\* read_azi raised on a decoded tree while both outputs were requested
C7_Witness ==
    /\ raised_in = "read_azi"
    /\ Called("read_rainbow")
    /\ args.nc_polar
    /\ args.nc_grid

\* C9: the azimuth axis is the explicit angle list, entry by entry, when the
\* slice declares one; otherwise it is the n_az angles k*360/n_az, k = 0..n_az-1,
\* all in [0, 360), n_az the number of rows of the data block.
C9_AzimuthAxis ==
    ds_polar.made =>
        IF tree.hasAngles
        THEN /\ Len(ds_polar.azimuth) = Len(tree.angles)
             /\ \A i \in 1..Len(tree.angles) :
                   ds_polar.azimuth[i] = ParseFloat(tree.angles[i]).val
        ELSE /\ Len(ds_polar.azimuth) = tree.rows
             /\ \A k \in 1..tree.rows :
                   /\ ds_polar.azimuth[k].k = "fin"
                   /\ ds_polar.azimuth[k].n * tree.rows = (k - 1) * 360
                   /\ ds_polar.azimuth[k].n >= 0
                   /\ ds_polar.azimuth[k].n < 360

\* a dataset of at least two rows read from a slice without an angle list
C9_Witness ==
    /\ ds_polar.made
    /\ ~tree.hasAngles
    /\ tree.rows >= 2

\* C10: every dataset read_azi returns carries radar_lon, radar_lat and
\* radar_alt_m, and the position main hands to polar_dataset_to_lonlat is the
\* one read from the file, NaN included, never the configured one.
C10_FilePositionAlwaysUsed ==
    /\ ds_polar.made =>
          {"radar_lon", "radar_lat", "radar_alt_m"} \subseteq DOMAIN ds_polar.attrs
    /\ Called("polar_dataset_to_lonlat") =>
          /\ radar_used = <<safe_float(tree.sensor.lon), safe_float(tree.sensor.lat),
                            safe_float(tree.sensor.alt)>>
          /\ (isnan(safe_float(tree.sensor.lon)) => radar_used[1] # cfg.radar.lon)

\* georeferencing ran on a file without @lon
C10_Witness ==
    /\ Called("polar_dataset_to_lonlat")
    /\ tree.sensor.lon = "missing"
    /\ isnan(radar_used[1])

====
